---- MODULE Spec2Model ----
(***************************************************************************)
(* A model of go-ds-swift: the datastore adapter over an OpenStack Swift   *)
(* container (src/unnamed/part_000).  The state is the container's objects,*)
(* the single-slot query cache, the goroutines that call into the          *)
(* datastore, the results and the batch each of them holds, the cache's    *)
(* lock, and a record of the last step: what the handler that returned in  *)
(* it was given, what it returned and which calls it made.                 *)
(*                                                                         *)
(* A handler is one step for each call it makes to the object store and    *)
(* for each section it runs under the cache's lock: between two of them    *)
(* other goroutines run.  The sections under the lock are taken apart into *)
(* single reads and writes in SpecLock.                                    *)
(*                                                                         *)
(* Strings are sequences of one-character strings, so that prefixes,       *)
(* trimming and the lexical order of a listing are computed, not assumed.  *)
(***************************************************************************)
EXTENDS Integers, Sequences, FiniteSets, TLC

VARIABLES objs, cache, iter, batch, last, lock, threads

vars == <<objs, cache, iter, batch, last, lock, threads>>

----------------------------------------------------------------------------
(* Bounds of the model.                                                     *)

\* Names per listing call.  The code asks for 10000 (part_000:128); the model
\* scales the page down so that listings shorter than a page, of exactly one
\* page and of several pages all occur with a handful of keys, and so that a
\* last, short page can hold more than one name.
PageLimit == 3

\* Largest q.Offset and q.Limit a query of the model is opened with.
MaxOffset == 3
MaxLimit == 3

\* Largest number of operations (puts plus deletes) put into one batch.
MaxBatch == 2

----------------------------------------------------------------------------
(* Strings.                                                                 *)

\* The characters in use, in ascending byte order ('/' < 'a' < 'b' < 'c' < 'd').
Alphabet == <<"/", "a", "b", "c", "d">>

Ord(ch) == CHOOSE i \in 1..Len(Alphabet) : Alphabet[i] = ch

EmptyStr == <<>>
Slash == <<"/">>

Min(a, b) == IF a < b THEN a ELSE b

\* s < t in the lexical (byte-wise) order of strings.
StrLess(s, t) ==
    \E i \in 1..(Min(Len(s), Len(t)) + 1) :
        /\ \A j \in 1..(i - 1) : s[j] = t[j]
        /\ \/ i = Len(s) + 1 /\ i <= Len(t)
           \/ i <= Len(s) /\ i <= Len(t) /\ Ord(s[i]) < Ord(t[i])

\* strings.HasPrefix
HasPrefix(s, p) == Len(p) <= Len(s) /\ SubSeq(s, 1, Len(p)) = p

\* strings.TrimPrefix
TrimPrefix(s, p) == IF HasPrefix(s, p) THEN SubSeq(s, Len(p) + 1, Len(s)) ELSE s

\* keyToName: the object name of a datastore key is the key without its
\* leading "/".
keyToName(k) == TrimPrefix(k, Slash)

\* key := "/" + name
NameToKey(n) == Slash \o n

----------------------------------------------------------------------------
(* The universe of the model: keys, values, query prefixes.                 *)

\* Datastore keys (ds.Key strings always begin with "/").
Keys == { <<"/", "a", "/", "b">>, <<"/", "a", "/", "c">>, <<"/", "a", "/", "d">>,
          <<"/", "b">> }

Names == { keyToName(k) : k \in Keys }

\* Values: the empty value and a one-byte value.
Vals == { <<>>, <<"x">> }

\* The keys put into and deleted from batches.
BatchKeys == { <<"/", "a", "/", "b">>, <<"/", "b">> }

\* The keys in use where batches are: those of the batches and one more.
BesideKeys == BatchKeys \cup { <<"/", "a", "/", "c">> }

\* q.Prefix of the queries of the model.
Prefixes == { <<"/">>, <<"/", "a", "/">> }

\* The container maps each name to <<v>>, an object with content v, or to
\* NoObj, no object.
NoObj == <<>>

\* The Value of an entry is <<v>>, or NoVal in a keys-only entry.
NoVal == <<>>

\* A call to the object store: the function, the name (or marker) passed, the
\* limit of a listing call (the size of a bulk call), and whether the call
\* succeeded.
Call(fn, name, limit, ok) == [fn |-> fn, name |-> name, limit |-> limit, ok |-> ok]

Present(o) == { n \in DOMAIN o : o[n] # NoObj }

----------------------------------------------------------------------------
(* The object store (github.com/ncw/swift), at the boundary the adapter     *)
(* uses.                                                                    *)

RECURSIVE SortNames(_)
\* The names of S in ascending lexical order.
SortNames(S) ==
    IF S = {} THEN <<>>
    ELSE LET m == CHOOSE x \in S : \A y \in S \ {x} : StrLess(x, y)
         IN  <<m>> \o SortNames(S \ {m})

\* conn.ObjectNames(container, &opts): the names with opts.Prefix that sort
\* after opts.Marker, ascending, at most opts.Limit of them; a Limit that is
\* not positive is not sent, and the listing is then not cut short.
ObjectNames(o, opts) ==
    LET all == SortNames({ n \in Present(o) :
                   /\ HasPrefix(n, opts.Prefix)
                   /\ (opts.Marker = EmptyStr \/ StrLess(opts.Marker, n)) })
    IN  IF opts.Limit > 0 /\ opts.Limit < Len(all)
        THEN SubSeq(all, 1, opts.Limit)
        ELSE all

\* The whole listing of a prefix: what a query with that prefix ranges over.
Listing(o, prefix) ==
    ObjectNames(o, [Prefix |-> prefix, Marker |-> EmptyStr, Limit |-> 0])

----------------------------------------------------------------------------
(* The query cache.                                                         *)

\* &QueryCache{}
EmptyCache == [prefix |-> EmptyStr, index |-> 0, name |-> EmptyStr]

\* QueryCache.Invalidate: only the name is cleared.
Invalidate(c) == [c EXCEPT !.name = EmptyStr]

\* The goroutines that call into the datastore at the same time.
Threads == {"g1", "g2"}

\* QueryCache.lock, a sync.RWMutex: the goroutines holding it shared and the
\* one holding it exclusively.
FreeLock == [readers |-> {}, writer |-> {}]

\* An RLock that does not wait for the writer.
CanRLock_Always(l) == TRUE

\* RLock returns when no goroutine holds the lock exclusively.
CanRLock(l) == l.writer = {}

\* Lock returns when no goroutine holds the lock at all.
CanLock(l) == l.writer = {} /\ l.readers = {}

\* A goroutine that is in no handler.  In a handler, pc is the call to the
\* object store the goroutine makes next; key and val are the arguments of Put
\* and Delete, name the local name of the iterator's Next, and calls the calls
\* to the object store the handler has made so far.  it0 holds the iterator
\* and c0 the cache as they were when Next was called (they are not variables
\* of the code).
\* Inside Query's read of the cache, taken apart: prefix is opts.Prefix, offset
\* the local offset, marker opts.Marker; seen are the fields of the cache the
\* condition at part_000:134 has read, in order, and used the index read at
\* 136 (neither is a variable of the code).  Inside a write: w is the triple
\* the iterator writes, kind tells the iterator's write from Invalidate.
IdleThread == [pc |-> "idle", prefix |-> EmptyStr, offset |-> 0, marker |-> EmptyStr,
               hit |-> FALSE, seen |-> <<>>, used |-> 0, kind |-> "none",
               w |-> EmptyCache,
               key |-> EmptyStr, val |-> EmptyStr, name |-> EmptyStr,
               calls |-> <<>>, it0 |-> <<>>, c0 |-> EmptyCache]

----------------------------------------------------------------------------
(* SwiftContainer.Query: the part that runs when Query is called.           *)

\* A cache used whatever prefix it is for.
CacheHit_AnyPrefix(c, prefix, qoffset) ==
    c.name # EmptyStr /\ c.index <= qoffset

\* The cache is used when it is for this prefix, not empty, and not beyond
\* the requested offset.
CacheHit(c, prefix, qoffset) ==
    c.prefix = prefix /\ c.name # EmptyStr /\ c.index <= qoffset

\* offset = s.cache.index - offset
HitOffset(cindex, qoffset) == cindex - qoffset

\* end := offset + q.Limit; if q.Limit != 0 && end < opts.Limit { opts.Limit = end }
FirstLimit(offset, qlimit) ==
    IF qlimit # 0 /\ offset + qlimit < PageLimit THEN offset + qlimit ELSE PageLimit

\* The iterator Query returns: the closure's captured variables.
NewIterator(q, c) ==
    LET prefix == TrimPrefix(q.Prefix, Slash)
        hit    == CacheHit(c, prefix, q.Offset)
        offset == IF hit THEN HitOffset(c.index, q.Offset) ELSE q.Offset
    IN  [ q            |-> q,
          opts         |-> [ Prefix |-> prefix,
                             Marker |-> IF hit THEN c.name ELSE EmptyStr,
                             Limit  |-> FirstLimit(offset, q.Limit) ],
          offset       |-> offset,
          count        |-> 0,
          names        |-> <<>>,
          doneFetching |-> FALSE,
          \* not variables of the code: whether the cache was used, the entries
          \* yielded so far, whether Next has returned false, whether it
          \* returned an error, whether Put, Delete or Commit has run since
          \* Query returned, and whether the consumer has called Close before
          \* Next returned false
          hit          |-> hit,
          out          |-> <<>>,
          ended        |-> FALSE,
          failed       |-> FALSE,
          disturbed    |-> FALSE,
          closed       |-> FALSE ]

----------------------------------------------------------------------------
(* SwiftContainer.Query: the iterator's Next.                               *)

\* A full page taken for the end of the listing.
ShortPage_OrFull(newLen, limit) == newLen <= limit

\* newLen < opts.Limit
ShortPage(newLen, limit) == newLen < limit

\* if offset > 0 { ... }: the names kept from a page and the skip left over.
SkipPage(newNames, offset) ==
    IF offset > 0
    THEN IF offset < Len(newNames)
         THEN [names |-> SubSeq(newNames, offset + 1, Len(newNames)), offset |-> 0]
         ELSE [names |-> <<>>, offset |-> offset - Len(newNames)]
    ELSE [names |-> newNames, offset |-> offset]

\* The body of the fetch loop once ObjectNames has returned newNames.  st
\* holds opts, offset, names, doneFetching and the calls made so far; exit
\* tells how the loop is left, "loop" meaning it goes round again.
FetchPage(st, newNames) ==
    LET st1 == [st EXCEPT !.calls = Append(@, Call("ObjectNames", st.opts.Marker,
                                                   st.opts.Limit, TRUE)),
                          !.doneFetching = @ \/ ShortPage(Len(newNames), st.opts.Limit)]
    IN  IF Len(newNames) = 0 /\ Len(st.names) = 0 THEN [st1 EXCEPT !.exit = "end"]
        ELSE IF Len(newNames) = 0 THEN [st1 EXCEPT !.exit = "panic"]
        ELSE [st1 EXCEPT !.opts.Marker = newNames[Len(newNames)],
                         !.offset = SkipPage(newNames, st.offset).offset,
                         !.names = st.names \o SkipPage(newNames, st.offset).names]

\* The closure's variables the fetch loop works on, with the calls Next has
\* made so far.
LoopState(it, calls) ==
    [opts |-> it.opts, offset |-> it.offset, names |-> it.names,
     doneFetching |-> it.doneFetching, calls |-> calls, exit |-> "loop"]

\* The closure with the variables of the fetch loop as st has them.
WithLoopState(it, st) ==
    [it EXCEPT !.opts = st.opts, !.offset = st.offset, !.names = st.names,
               !.doneFetching = st.doneFetching]

\* if q.Limit != 0 && count == q.Limit { return Result{}, false }
LimitReached(it) == it.q.Limit # 0 /\ it.count = it.q.Limit

\* A loop head that lists again whatever the last page was.
LoopHead_IgnoresDone(it) ==
    IF ~(Len(it.names) = 0 \/ it.offset > 0) THEN "emit" ELSE "list"

\* for len(names) == 0 || offset > 0 { if doneFetching { return Result{}, false }:
\* where Next goes on from the head of the fetch loop: to the emission when
\* the loop falls through ("emit"), to its return when the listing is done
\* ("end"), to the call of ObjectNames otherwise ("list").
LoopHead(it) ==
    IF ~(Len(it.names) = 0 \/ it.offset > 0) THEN "emit"
    ELSE IF it.doneFetching THEN "end"
    ELSE "list"

\* One round of the fetch loop, from its call of ObjectNames to the head of
\* the loop: Next goes on at pc, which is "error" when the listing failed,
\* "end" (return Result{}, false), "panic" (newNames[newLen-1] on an empty
\* page), or what the loop head says.
ListRound(it, calls, o, listOk) ==
    IF ~listOk
    THEN [it |-> it, pc |-> "error",
          calls |-> Append(calls, Call("ObjectNames", it.opts.Marker, it.opts.Limit, FALSE))]
    ELSE LET st == FetchPage(LoopState(it, calls), ObjectNames(o, it.opts))
         IN  [it |-> WithLoopState(it, st),
              pc |-> IF st.exit = "loop" THEN LoopHead(WithLoopState(it, st)) ELSE st.exit,
              calls |-> st.calls]

\* if len(names) == 0 && q.Limit > count && (q.Limit-count) < opts.Limit
TailLimit(namesLeft, qlimit, count, limit) ==
    IF namesLeft = 0 /\ qlimit > count /\ (qlimit - count) < limit
    THEN qlimit - count
    ELSE limit

\* if doneFetching || (q.Limit > 0 && count == q.Limit)
CacheDue(doneFetching, qlimit, count) ==
    doneFetching \/ (qlimit > 0 /\ count = qlimit)

\* The cache written with the count of this query alone, its offset left out.
CacheWrite_CountOnly(prefix, qoffset, count, name) ==
    [prefix |-> prefix, index |-> count, name |-> name]

\* s.cache.prefix = opts.Prefix; s.cache.index = q.Offset + count; s.cache.name = name
CacheWrite(prefix, qoffset, count, name) ==
    [prefix |-> prefix, index |-> qoffset + count, name |-> name]

\* The emission once the fetch loop has fallen through: count++, the head of
\* names is taken, the page limit shrinks for the tail, and the cache is
\* written, under its lock, when due.
EmitName(it, c) ==
    [ it    |-> [it EXCEPT !.count = it.count + 1,
                           !.names = Tail(it.names),
                           !.opts.Limit = TailLimit(Len(it.names) - 1, it.q.Limit,
                                                    it.count + 1, @)],
      cache |-> IF CacheDue(it.doneFetching, it.q.Limit, it.count + 1)
                THEN CacheWrite(it.opts.Prefix, it.q.Offset, it.count + 1, Head(it.names))
                ELSE c,
      name  |-> Head(it.names) ]

\* A value fetched for a keys-only query as well.
NeedsValue_Always(q) == TRUE

\* if q.KeysOnly { return ...Entry{Key: key}... }: the value is fetched for
\* the other queries.
NeedsValue(q) == ~q.KeysOnly

\* The program points of Next at which the goroutine has not returned.
NextPoints == {"list", "emit", "get"}

\* Next has been called on closure it with the cache c: the limit is checked
\* and the fetch loop entered.  A run of Next is the pc it goes on at, the
\* closure, the cache, the calls made so far, the local name and, when it has
\* returned one, the entry.
NextEnter(it, c) ==
    [ pc |-> IF LimitReached(it) THEN "end" ELSE LoopHead(it),
      it |-> it, cache |-> c, calls |-> <<>>, name |-> EmptyStr, entry |-> <<>> ]

\* One step of Next from the run s on container o: a round of the fetch loop
\* with its listing call, the emission with the cache write, or the value
\* fetch.  pc is then where Next goes on, or how it has returned: "entry",
\* "end", "error" or "panic".  listOk and getOk say whether the listing and
\* the value fetch go through.
NextStep(s, o, listOk, getOk) ==
    IF s.pc = "list"
    THEN [s EXCEPT !.pc = ListRound(s.it, s.calls, o, listOk).pc,
                   !.it = ListRound(s.it, s.calls, o, listOk).it,
                   !.calls = ListRound(s.it, s.calls, o, listOk).calls]
    ELSE IF s.pc = "emit"
    THEN [s EXCEPT !.pc = IF NeedsValue(s.it.q) THEN "get" ELSE "entry",
                   !.it = EmitName(s.it, s.cache).it,
                   !.cache = EmitName(s.it, s.cache).cache,
                   !.name = EmitName(s.it, s.cache).name,
                   !.entry = IF NeedsValue(s.it.q) THEN <<>>
                             ELSE <<[Key |-> NameToKey(EmitName(s.it, s.cache).name),
                                     Value |-> NoVal]>>]
    ELSE IF s.pc = "get"
    THEN LET fetched == getOk /\ o[s.name] # NoObj
         IN  [s EXCEPT !.pc = IF fetched THEN "entry" ELSE "error",
                       !.calls = Append(@, Call("ObjectGetBytes", s.name, 0, fetched)),
                       !.entry = IF fetched
                                 THEN <<[Key |-> NameToKey(s.name), Value |-> o[s.name]]>>
                                 ELSE <<>>]
    ELSE s

RECURSIVE RunNext(_, _, _, _)
\* Next run from s to its return, on a container and a cache no other
\* goroutine touches meanwhile.
RunNext(s, o, listOk, getOk) ==
    IF s.pc \in NextPoints THEN RunNext(NextStep(s, o, listOk, getOk), o, listOk, getOk)
    ELSE s

\* What the run s of Next has returned: the iterator and the cache afterwards,
\* ok and the entry or the error, and the calls made to the object store.
Returns(s) ==
    [ it |-> s.it, cache |-> s.cache, ok |-> s.pc = "entry",
      err |-> s.pc \in {"error", "panic"}, entry |-> s.entry, calls |-> s.calls ]

\* One call of the iterator's Next with no other goroutine running.
IterNext(it, c, o, listOk, getOk) ==
    Returns(RunNext(NextEnter(it, c), o, listOk, getOk))

\* Close: names = []string{}
IterClose(it) == [it EXCEPT !.names = <<>>]

\* Results.NextSync over the iterator (dsq.ResultsFromIterator): one call of
\* Next; an entry it yields is handed to the consumer, and when it returns
\* false the iterator is closed and not advanced again.
Deliver(r) ==
    [r EXCEPT !.it = IF r.ok THEN [r.it EXCEPT !.out = @ \o r.entry]
                     ELSE [IterClose(r.it) EXCEPT !.ended = TRUE, !.failed = r.err]]

NextSync(it, c, o, listOk, getOk) == Deliver(IterNext(it, c, o, listOk, getOk))

RECURSIVE RestFrom(_, _, _)
\* Results.Rest(): NextSync until it returns false (every call to the object
\* store goes through).  The iterator and the cache at the end.
RestFrom(it, c, o) ==
    IF it.ended THEN [it |-> it, cache |-> c]
    ELSE RestFrom(NextSync(it, c, o, TRUE, TRUE).it,
                  NextSync(it, c, o, TRUE, TRUE).cache, o)

\* A query opened on cache c and container o and consumed to its end.
RunQuery(q, c, o) == RestFrom(NewIterator(q, c), c, o)

\* The keys of the entries an iterator has yielded, in order.
OutKeys(it) == [i \in 1..Len(it.out) |-> it.out[i].Key]

----------------------------------------------------------------------------
(* The per-key operations.                                                  *)

\* What a call on one object answers: nil, swift.ObjectNotFound when there is
\* no object under the name, or another error when the call does not go
\* through (ok is FALSE).
ObjectErr(o, name, ok) ==
    IF ~ok THEN "err" ELSE IF o[name] = NoObj THEN "ObjectNotFound" ELSE "nil"

\* conn.ObjectGetBytes(container, name)
ObjectGetBytes(o, name, ok) ==
    [data |-> IF ObjectErr(o, name, ok) = "nil" THEN o[name] ELSE NoVal,
     err  |-> ObjectErr(o, name, ok)]

\* conn.Object(container, name): info.Bytes is the length of the content.
Object(o, name, ok) ==
    [Bytes |-> IF ObjectErr(o, name, ok) = "nil" THEN Len(o[name][1]) ELSE 0,
     err   |-> ObjectErr(o, name, ok)]

\* A Get that hands the object store's not-found error on as it is.
Get_Raw(o, k, ok) == ObjectGetBytes(o, keyToName(k), ok)

\* A Get that takes an object without content for no object.
Get_EmptyIsAbsent(o, k, ok) ==
    IF ObjectGetBytes(o, keyToName(k), ok).err = "nil"
       /\ ObjectGetBytes(o, keyToName(k), ok).data # <<EmptyStr>>
    THEN ObjectGetBytes(o, keyToName(k), ok)
    ELSE [data |-> NoVal, err |-> "ErrNotFound"]

\* SwiftContainer.Get: the bytes and the error returned (ok: the call to the
\* object store goes through).
Get(o, k, ok) ==
    IF ObjectGetBytes(o, keyToName(k), ok).err = "nil"
    THEN [data |-> ObjectGetBytes(o, keyToName(k), ok).data, err |-> "nil"]
    ELSE IF ObjectGetBytes(o, keyToName(k), ok).err = "ObjectNotFound"
    THEN [data |-> NoVal, err |-> "ErrNotFound"]
    ELSE [data |-> NoVal, err |-> ObjectGetBytes(o, keyToName(k), ok).err]

\* SwiftContainer.Has
Has(o, k, ok) ==
    IF Object(o, keyToName(k), ok).err = "nil" THEN [has |-> TRUE, err |-> "nil"]
    ELSE IF Object(o, keyToName(k), ok).err = "ObjectNotFound"
    THEN [has |-> FALSE, err |-> "nil"]
    ELSE [has |-> FALSE, err |-> Object(o, keyToName(k), ok).err]

\* maxInt := int64((^uint(0)) >> 1), for an int of 32 bits.
maxInt == 2147483647

\* SwiftContainer.GetSize
GetSize(o, k, ok) ==
    IF Object(o, keyToName(k), ok).err = "ObjectNotFound"
    THEN [size |-> 0, err |-> "ErrNotFound"]
    ELSE IF Object(o, keyToName(k), ok).err # "nil"
    THEN [size |-> 0, err |-> Object(o, keyToName(k), ok).err]
    ELSE IF Object(o, keyToName(k), ok).Bytes > maxInt
    THEN [size |-> 0, err |-> "integer overflow"]
    ELSE [size |-> Object(o, keyToName(k), ok).Bytes, err |-> "nil"]

\* conn.ObjectPutBytes(container, name, val, ...)
ObjectPutBytes(o, name, val) == [o EXCEPT ![name] = <<val>>]

\* A delete that leaves the object where it is.
ObjectDelete_Nothing(o, name) == o

\* conn.ObjectDelete(container, name)
ObjectDelete(o, name) == [o EXCEPT ![name] = NoObj]

----------------------------------------------------------------------------
(* Batches.                                                                 *)

\* &swiftBatch{...}: no archive writer, no delete keys.  putData is the
\* archive buffer as the sequence of the records not yet read from it;
\* tarWriter is "nil", "open" or, once Commit has closed it, "closed".  puts
\* and dels are history: the Put and Delete calls the batch has accepted, as
\* the caller made them; committed tells that Commit was called on the batch
\* and again that it was called more than once.
NewBatch == [putData |-> <<>>, tarWriter |-> "nil", delKeys |-> <<>>,
             committed |-> FALSE, again |-> FALSE,
             puts |-> <<>>, dels |-> <<>>]

\* A record whose header is written and whose body is not.
BatchPutRec_NoBody(b, k, val) ==
    [b EXCEPT !.putData = Append(@, [Name |-> k, Body |-> <<>>]),
              !.tarWriter = "open"]

\* swiftBatch.Put on a batch whose writer is not closed: the writer is made
\* if there is none, and one archive record written, named by the key's full
\* string.
BatchPutRec(b, k, val) ==
    [b EXCEPT !.putData = Append(@, [Name |-> k, Body |-> val]),
              !.tarWriter = "open"]

\* swiftBatch.Delete: the object name of the key is appended.
BatchDeleteRec(b, k) == [b EXCEPT !.delKeys = Append(@, keyToName(k))]

RECURSIVE BulkUpload(_, _, _)
\* conn.BulkUpload(container, archive, swift.UploadTar, nil): the first n
\* records of the archive are extracted in order, each into the object named
\* by the record's path without leading "/".
BulkUpload(o, recs, n) ==
    IF n = 0 \/ recs = <<>> THEN o
    ELSE BulkUpload(ObjectPutBytes(o, TrimPrefix(Head(recs).Name, Slash), Head(recs).Body),
                    Tail(recs), n - 1)

RECURSIVE BulkDelete(_, _, _)
\* conn.BulkDelete(container, names): the first n names are deleted (a name
\* with no object is skipped).
BulkDelete(o, names, n) ==
    IF n = 0 \/ names = <<>> THEN o
    ELSE BulkDelete(ObjectDelete(o, Head(names)), Tail(names), n - 1)

\* if b.tarWriter != nil
HasPuts(b) == b.tarWriter # "nil"

\* if len(b.delKeys) > 0
HasDeletes(b) == Len(b.delKeys) > 0

\* The bulk delete issued whether or not there are delete keys.
AfterUpload_Always(b) == "BulkDelete"

\* Where Commit goes on once the upload is done or was not due: to the bulk
\* delete when there are delete keys, to its return otherwise.
AfterUpload(b) == IF HasDeletes(b) THEN "BulkDelete" ELSE "return"

\* A commit that issues the bulk delete first, and nothing after it.
AfterInvalidate_DeletesFirst(b) ==
    IF HasDeletes(b) THEN "BulkDelete"
    ELSE IF HasPuts(b) THEN "BulkUpload" ELSE "return"

\* Where Commit goes on once the cache is invalidated: to the upload when
\* there is an archive writer.
AfterInvalidate(b) == IF HasPuts(b) THEN "BulkUpload" ELSE AfterUpload(b)

\* A commit that goes on to the bulk delete after a failed upload.
OnUploadError_GoesOn(b) == AfterUpload(b)

\* if err != nil { return err } after BulkUpload
OnUploadError(b) == "return"

\* b.tarWriter.Close() and b.s.BulkUpload(container, b.putData, ...).  upOk
\* says whether the call succeeds; one that fails has applied the first upN
\* records.  The upload reads the archive out of the buffer: all of it when
\* it succeeds, the first sent records when it fails.
CommitUpload(b, o, upOk, upN, sent) ==
    [ objs  |-> BulkUpload(o, b.putData, IF upOk THEN Len(b.putData) ELSE upN),
      batch |-> [b EXCEPT !.tarWriter = "closed",
                          !.putData = SubSeq(@, (IF upOk THEN Len(@) ELSE sent) + 1, Len(@))],
      call  |-> Call("BulkUpload", EmptyStr, Len(b.putData), upOk),
      ret   |-> IF upOk THEN "nil" ELSE "BulkUploadErr",
      pc    |-> IF upOk THEN AfterUpload(b) ELSE OnUploadError(b) ]

\* A bulk delete that, failing, removes what the batch has put as well.
CommitDelete_UndoesPuts(b, o, delOk, delN) ==
    [ objs |-> IF delOk THEN BulkDelete(o, b.delKeys, Len(b.delKeys))
               ELSE BulkDelete(BulkDelete(o, b.delKeys, delN),
                               [i \in 1..Len(b.puts) |-> keyToName(b.puts[i].Key)],
                               Len(b.puts)),
      call |-> Call("BulkDelete", EmptyStr, Len(b.delKeys), delOk),
      ret  |-> IF delOk THEN "nil" ELSE "BulkDeleteErr",
      pc   |-> "return" ]

\* b.s.BulkDelete(container, b.delKeys).  delOk says whether the call
\* succeeds; one that fails has deleted the first delN names.
CommitDelete(b, o, delOk, delN) ==
    [ objs |-> BulkDelete(o, b.delKeys, IF delOk THEN Len(b.delKeys) ELSE delN),
      call |-> Call("BulkDelete", EmptyStr, Len(b.delKeys), delOk),
      ret  |-> IF delOk THEN "nil" ELSE "BulkDeleteErr",
      pc   |-> "return" ]

----------------------------------------------------------------------------
(* The state machine.                                                       *)

Queries == [Prefix : Prefixes, Offset : 0..MaxOffset, Limit : 0..MaxLimit,
            KeysOnly : BOOLEAN]

\* The last step: the goroutine that took it and, when a handler returned in
\* it, the handler, the key it was given, what it returned and the calls it
\* made to the object store.
Last(g, op, key, ret, calls) ==
    [g |-> g, op |-> op, key |-> key, ret |-> ret, calls |-> calls]

\* The same for a handler whose value matters: val is the value Put was
\* given, or what Get, Has or GetSize returned beside the error.
LastVal(g, op, key, ret, calls, val) ==
    [g |-> g, op |-> op, key |-> key, ret |-> ret, calls |-> calls, val |-> val]

\* The same for a Next that returned: it0 is the iterator and c0 the cache as
\* they were when Next was called.
LastNext(g, ret, calls, it0, c0) ==
    [g |-> g, op |-> "Next", key |-> EmptyStr, ret |-> ret, calls |-> calls,
     it0 |-> it0, c0 |-> c0]

\* A step after which handler op of goroutine g has not returned yet.
Running(g, op) == Last(g, "Running", EmptyStr, op, <<>>)

\* NewSwiftDatastore: an empty cache over a container that may already hold
\* objects.  iter[g] and batch[g] are <<>> or hold the results and the batch
\* goroutine g holds.
Init ==
    /\ objs \in [Names -> {NoObj} \cup { <<v>> : v \in Vals }]
    /\ cache = EmptyCache
    /\ iter = [g \in Threads |-> <<>>]
    /\ batch = [g \in Threads |-> <<>>]
    /\ last = Last("g1", "New", EmptyStr, "nil", <<>>)
    /\ lock = FreeLock
    /\ threads = [t \in Threads |-> IdleThread]

\* Goroutine g is not inside a handler: a goroutine runs one call at a time,
\* whatever results and batches are open and whatever the others are doing.
InNoHandler(g) == threads[g].pc = "idle"

\* The iterators its, marked as open while Put, Delete or Commit ran.
Disturbed(its) ==
    [g \in Threads |->
        IF its[g] = <<>> THEN <<>> ELSE <<[its[g][1] EXCEPT !.disturbed = TRUE]>>]

\* SwiftContainer.Put up to its call to the object store: s.cache.Invalidate()
Put(g, k, val) ==
    /\ InNoHandler(g)
    /\ cache' = Invalidate(cache)
    /\ threads' = [threads EXCEPT ![g] = [IdleThread EXCEPT
                       !.pc = "ObjectPutBytes", !.key = k, !.val = val]]
    /\ iter' = Disturbed(iter)
    /\ last' = Running(g, "Put")
    /\ UNCHANGED <<lock, objs, batch>>

\* s.conn.ObjectPutBytes(...) returns, and Put with what it returned.
PutLanded(g, ok) ==
    /\ threads[g].pc = "ObjectPutBytes"
    /\ objs' = IF ok THEN ObjectPutBytes(objs, keyToName(threads[g].key), threads[g].val)
               ELSE objs
    /\ threads' = [threads EXCEPT ![g] = IdleThread]
    /\ iter' = Disturbed(iter)
    /\ last' = LastVal(g, "Put", threads[g].key, IF ok THEN "nil" ELSE "err",
                       <<Call("ObjectPutBytes", keyToName(threads[g].key), 0, ok)>>,
                       threads[g].val)
    /\ UNCHANGED <<lock, cache, batch>>

\* SwiftContainer.Delete up to its call to the object store:
\* s.cache.Invalidate()
Delete(g, k) ==
    /\ InNoHandler(g)
    /\ cache' = Invalidate(cache)
    /\ threads' = [threads EXCEPT ![g] = [IdleThread EXCEPT
                       !.pc = "ObjectDelete", !.key = k]]
    /\ iter' = Disturbed(iter)
    /\ last' = Running(g, "Delete")
    /\ UNCHANGED <<lock, objs, batch>>

\* s.conn.ObjectDelete(...) returns, and Delete with what it returned (the
\* object store answers ObjectNotFound for a name with no object).
DeleteLanded(g, ok) ==
    /\ threads[g].pc = "ObjectDelete"
    /\ objs' = IF ok THEN ObjectDelete(objs, keyToName(threads[g].key)) ELSE objs
    /\ threads' = [threads EXCEPT ![g] = IdleThread]
    /\ iter' = Disturbed(iter)
    /\ last' = Last(g, "Delete", threads[g].key,
                    IF ~ok THEN "err"
                    ELSE IF objs[keyToName(threads[g].key)] = NoObj THEN "ObjectNotFound"
                    ELSE "nil",
                    <<Call("ObjectDelete", keyToName(threads[g].key), 0,
                           ok /\ objs[keyToName(threads[g].key)] # NoObj)>>)
    /\ UNCHANGED <<lock, cache, batch>>

\* SwiftContainer.Get, Has and GetSize as a goroutine calls them.
GetKey(g, k, ok) ==
    /\ InNoHandler(g)
    /\ last' = LastVal(g, "Get", k, Get(objs, k, ok).err,
                       <<Call("ObjectGetBytes", keyToName(k), 0,
                              ObjectErr(objs, keyToName(k), ok) = "nil")>>,
                       Get(objs, k, ok).data)
    /\ UNCHANGED <<lock, threads, objs, cache, iter, batch>>

HasKey(g, k, ok) ==
    /\ InNoHandler(g)
    /\ last' = LastVal(g, "Has", k, Has(objs, k, ok).err,
                       <<Call("Object", keyToName(k), 0,
                              ObjectErr(objs, keyToName(k), ok) = "nil")>>,
                       Has(objs, k, ok).has)
    /\ UNCHANGED <<lock, threads, objs, cache, iter, batch>>

GetSizeKey(g, k, ok) ==
    /\ InNoHandler(g)
    /\ last' = LastVal(g, "GetSize", k, GetSize(objs, k, ok).err,
                       <<Call("Object", keyToName(k), 0,
                              ObjectErr(objs, keyToName(k), ok) = "nil")>>,
                       GetSize(objs, k, ok).size)
    /\ UNCHANGED <<lock, threads, objs, cache, iter, batch>>

\* q.Orders and q.Filters: nil is <<>>.
OrderLists == { <<>>, <<"order">> }
FilterLists == { <<>>, <<"filter">> }

\* if q.Orders != nil || q.Filters != nil
Unsupported(orders, filters) == orders # <<>> \/ filters # <<>>

\* A query with filters or orders refused only after its first listing call.
QueryRejected_AfterListing(g, q, orders, filters) ==
    /\ InNoHandler(g)
    /\ Unsupported(orders, filters)
    /\ last' = Last(g, "Query", q.Prefix, "ErrUnsupported",
                    <<Call("ObjectNames", NewIterator(q, cache).opts.Marker,
                           NewIterator(q, cache).opts.Limit, TRUE)>>)
    /\ UNCHANGED <<lock, threads, objs, cache, iter, batch>>

\* SwiftContainer.Query with filters or orders: the error is returned at once
\* and no results are; the goroutine holds what it held.
QueryRejected(g, q, orders, filters) ==
    /\ InNoHandler(g)
    /\ Unsupported(orders, filters)
    /\ last' = Last(g, "Query", q.Prefix, "ErrUnsupported", <<>>)
    /\ UNCHANGED <<lock, threads, objs, cache, iter, batch>>

\* SwiftContainer.Query without filters or orders: the cache is read under
\* its lock and the results returned; the goroutine lets go of the results it
\* held.
Query(g, q) ==
    /\ InNoHandler(g)
    /\ iter' = [iter EXCEPT ![g] = <<NewIterator(q, cache)>>]
    /\ last' = Last(g, "Query", q.Prefix, "nil", <<>>)
    /\ UNCHANGED <<lock, threads, objs, cache, batch>>

\* What Next has returned in the run s.
NextRet(s) == IF s.pc = "entry" THEN "entry" ELSE IF s.pc = "end" THEN "end" ELSE "err"

\* A step of Next after which the results never count as ended.
Stepped_NeverEnded(g, s, it0, c0) ==
    /\ cache' = s.cache
    /\ IF s.pc \in NextPoints
       THEN /\ iter' = [iter EXCEPT ![g] = <<s.it>>]
            /\ threads' = [threads EXCEPT ![g] = [IdleThread EXCEPT
                               !.pc = s.pc, !.calls = s.calls, !.name = s.name,
                               !.it0 = <<it0>>, !.c0 = c0]]
            /\ last' = Running(g, "Next")
       ELSE /\ iter' = [iter EXCEPT ![g] =
                            <<[Deliver(Returns(s)).it EXCEPT !.ended = FALSE]>>]
            /\ threads' = [threads EXCEPT ![g] = IdleThread]
            /\ last' = LastNext(g, NextRet(s), s.calls, it0, c0)
    /\ UNCHANGED <<lock, objs, batch>>

\* Goroutine g has taken a step of the Next it runs on its results, called on
\* iterator it0 and cache c0, and the run is s: Next goes on at s.pc, or has
\* returned, and NextSync hands on what it returned.
Stepped(g, s, it0, c0) ==
    /\ cache' = s.cache
    /\ IF s.pc \in NextPoints
       THEN /\ iter' = [iter EXCEPT ![g] = <<s.it>>]
            /\ threads' = [threads EXCEPT ![g] = [IdleThread EXCEPT
                               !.pc = s.pc, !.calls = s.calls, !.name = s.name,
                               !.it0 = <<it0>>, !.c0 = c0]]
            /\ last' = Running(g, "Next")
       ELSE /\ iter' = [iter EXCEPT ![g] = <<Deliver(Returns(s)).it>>]
            /\ threads' = [threads EXCEPT ![g] = IdleThread]
            /\ last' = LastNext(g, NextRet(s), s.calls, it0, c0)
    /\ UNCHANGED <<lock, objs, batch>>

\* Results.NextSync: the iterator's Next is called and runs up to its first
\* call to the object store or its cache write, or to its return.
NextCalled(g, listOk, getOk) ==
    /\ InNoHandler(g)
    /\ iter[g] # <<>>
    /\ Stepped(g, NextStep(NextEnter(iter[g][1], cache), objs, listOk, getOk),
               iter[g][1], cache)

\* The Next goroutine g is in takes its next step.
NextGoesOn(g, listOk, getOk) ==
    /\ threads[g].pc \in NextPoints
    /\ iter[g] # <<>>
    /\ Stepped(g, NextStep([ pc |-> threads[g].pc, it |-> iter[g][1], cache |-> cache,
                             calls |-> threads[g].calls, name |-> threads[g].name,
                             entry |-> <<>> ], objs, listOk, getOk),
               threads[g].it0[1], threads[g].c0)

\* The consumer advances results that have not ended by one.
Advance(g, listOk, getOk) ==
    \/ /\ iter[g] # <<>>
       /\ ~iter[g][1].ended
       /\ NextCalled(g, listOk, getOk)
    \/ NextGoesOn(g, listOk, getOk)

\* The consumer advances the results once more after Next has returned false:
\* NextSync calls the iterator's Next whatever it returned before.
AdvanceAgain(g, listOk, getOk) ==
    /\ iter[g] # <<>>
    /\ iter[g][1].ended
    /\ NextCalled(g, listOk, getOk)

\* Results.Close, before or after the end of the results: the iterator's
\* Close empties the buffer of names and nothing else, and the caller keeps
\* the results, which NextSync advances as before.
CloseResults(g) ==
    /\ InNoHandler(g)
    /\ iter[g] # <<>>
    /\ iter' = [iter EXCEPT ![g] =
                    <<[IterClose(iter[g][1]) EXCEPT !.closed = @ \/ ~iter[g][1].ended]>>]
    /\ last' = Last(g, "Close", EmptyStr, "nil", <<>>)
    /\ UNCHANGED <<lock, threads, objs, cache, batch>>

\* SwiftContainer.Batch: the goroutine lets go of the batch it held.
Batch(g) ==
    /\ InNoHandler(g)
    /\ batch' = [batch EXCEPT ![g] = <<NewBatch>>]
    /\ last' = Last(g, "Batch", EmptyStr, "nil", <<>>)
    /\ UNCHANGED <<lock, threads, objs, cache, iter>>

\* The number of Put and Delete calls batch b has accepted.
BatchSize(b) == Len(b.puts) + Len(b.dels)

\* A batch put that writes through to the object store at once.
BatchPut_Eager(g, k, val) ==
    /\ InNoHandler(g)
    /\ batch[g] # <<>>
    /\ BatchSize(batch[g][1]) < MaxBatch
    /\ batch[g][1].tarWriter # "closed"
    /\ batch' = [batch EXCEPT ![g] = <<[BatchPutRec(batch[g][1], k, val) EXCEPT
                                           !.puts = Append(@, [Key |-> k, Val |-> val])]>>]
    /\ cache' = Invalidate(cache)
    /\ objs' = ObjectPutBytes(objs, keyToName(k), val)
    /\ last' = Last(g, "BatchPut", k, "nil",
                    <<Call("ObjectPutBytes", keyToName(k), 0, TRUE)>>)
    /\ UNCHANGED <<lock, threads, iter>>

\* swiftBatch.Put, before or after a Commit of the batch: on a writer that
\* Commit has closed WriteHeader fails and the batch stays as it is.  (The
\* model stops taking operations into a batch that has accepted MaxBatch.)
BatchPut(g, k, val) ==
    /\ InNoHandler(g)
    /\ batch[g] # <<>>
    /\ BatchSize(batch[g][1]) < MaxBatch
    /\ IF batch[g][1].tarWriter = "closed"
       THEN /\ last' = Last(g, "BatchPut", k, "ErrWriteAfterClose", <<>>)
            /\ UNCHANGED batch
       ELSE /\ batch' = [batch EXCEPT ![g] =
                            <<[BatchPutRec(batch[g][1], k, val) EXCEPT
                                  !.puts = Append(@, [Key |-> k, Val |-> val])]>>]
            /\ last' = Last(g, "BatchPut", k, "nil", <<>>)
    /\ UNCHANGED <<lock, threads, objs, cache, iter>>

\* swiftBatch.Delete, before or after a Commit of the batch.
BatchDelete(g, k) ==
    /\ InNoHandler(g)
    /\ batch[g] # <<>>
    /\ BatchSize(batch[g][1]) < MaxBatch
    /\ batch' = [batch EXCEPT ![g] =
                    <<[BatchDeleteRec(batch[g][1], k) EXCEPT !.dels = Append(@, k)]>>]
    /\ last' = Last(g, "BatchDelete", k, "nil", <<>>)
    /\ UNCHANGED <<lock, threads, objs, cache, iter>>

\* Commit goes on at pc after the calls it has made, or has returned ret.
CommitGoesOn(g, pc, ret, calls) ==
    IF pc = "return"
    THEN /\ threads' = [threads EXCEPT ![g] = IdleThread]
         /\ last' = Last(g, "Commit", EmptyStr, ret, calls)
    ELSE /\ threads' = [threads EXCEPT ![g] = [IdleThread EXCEPT
                            !.pc = pc, !.calls = calls]]
         /\ last' = Running(g, "Commit")

\* swiftBatch.Commit, of a batch committed before or not, up to its first
\* call to the object store: b.s.cache.Invalidate().  With nothing to upload
\* and nothing to delete it returns.
Commit(g) ==
    /\ InNoHandler(g)
    /\ batch[g] # <<>>
    /\ cache' = Invalidate(cache)
    /\ batch' = [batch EXCEPT ![g] = <<[batch[g][1] EXCEPT
                                           !.again = batch[g][1].committed,
                                           !.committed = TRUE]>>]
    /\ iter' = Disturbed(iter)
    /\ CommitGoesOn(g, AfterInvalidate(batch[g][1]), "nil", <<>>)
    /\ UNCHANGED <<lock, objs>>

\* The archive writer is closed and BulkUpload returns.
CommitUploaded(g, upOk, upN, sent) ==
    /\ threads[g].pc = "BulkUpload"
    /\ batch[g] # <<>>
    /\ LET r == CommitUpload(batch[g][1], objs, upOk, upN, sent)
       IN  /\ objs' = r.objs
           /\ batch' = [batch EXCEPT ![g] = <<r.batch>>]
           /\ CommitGoesOn(g, r.pc, r.ret, Append(threads[g].calls, r.call))
    /\ iter' = Disturbed(iter)
    /\ UNCHANGED <<lock, cache>>

\* BulkDelete returns, and Commit with what it returned.
CommitDeleted(g, delOk, delN) ==
    /\ threads[g].pc = "BulkDelete"
    /\ batch[g] # <<>>
    /\ LET r == CommitDelete(batch[g][1], objs, delOk, delN)
       IN  /\ objs' = r.objs
           /\ CommitGoesOn(g, r.pc, r.ret, Append(threads[g].calls, r.call))
    /\ iter' = Disturbed(iter)
    /\ UNCHANGED <<lock, cache, batch>>

\* The caller lets go of the batch, committed or not.
Discard(g) ==
    /\ InNoHandler(g)
    /\ batch[g] # <<>>
    /\ batch' = [batch EXCEPT ![g] = <<>>]
    /\ last' = Last(g, "Discard", EmptyStr, "nil", <<>>)
    /\ UNCHANGED <<lock, threads, objs, cache, iter>>

\* The goroutine of the specifications with one caller: it calls one handler
\* after the other, whatever results and batch it holds.
OneCaller == {"g1"}

\* The key put and deleted beside the queries is /b.
DoPut == \E g \in OneCaller : Put(g, <<"/", "b">>, EmptyStr)

DoPutLanded == \E g \in Threads, ok \in BOOLEAN : PutLanded(g, ok)

DoDelete == \E g \in OneCaller : Delete(g, <<"/", "b">>)

DoDeleteLanded == \E g \in Threads, ok \in BOOLEAN : DeleteLanded(g, ok)

\* The queries the caller opens: every keys-only query, and with values those
\* with offset and limit of at most one.
DoQuery ==
    \E g \in OneCaller, q \in Queries :
        /\ q.KeysOnly \/ (q.Offset <= 1 /\ q.Limit <= 1)
        /\ Query(g, q)

DoGet == \E g \in OneCaller, k \in BesideKeys, ok \in BOOLEAN : GetKey(g, k, ok)

DoHas == \E g \in OneCaller, k \in BesideKeys, ok \in BOOLEAN : HasKey(g, k, ok)

DoGetSize == \E g \in OneCaller, k \in BesideKeys, ok \in BOOLEAN : GetSizeKey(g, k, ok)

\* The queries given with filters or orders: the full scans of the prefixes.
RejectedQueries == { q \in Queries : q.Offset = 0 /\ q.Limit = 0 }

DoQueryRejected ==
    \E g \in OneCaller, q \in RejectedQueries, orders \in OrderLists,
       filters \in FilterLists : QueryRejected(g, q, orders, filters)

\* A step of Next makes at most one call to the object store: ok says whether
\* it goes through.
DoAdvance == \E g \in Threads, ok \in BOOLEAN : Advance(g, ok, ok)

DoClose == \E g \in Threads : CloseResults(g)

\* The queries run beside the per-key operations: the first key, or all
\* keys, of a prefix.
BesideQueries == { q \in Queries : q.Offset = 0 /\ q.Limit \in {0, 1} /\ q.KeysOnly }

\* Beside Put, Delete, Get, Has and GetSize: those for every key of the
\* container.
DoBesideQuery ==
    \E g \in OneCaller, q \in BesideQueries : q.Prefix = Slash /\ Query(g, q)

\* Put and Delete of the keys in use beside batches.
DoPutBeside == \E g \in OneCaller, k \in BesideKeys, val \in Vals : Put(g, k, val)

DoDeleteBeside == \E g \in OneCaller, k \in BesideKeys : Delete(g, k)

\* The query run beside the batches: the first key of the container, which
\* fills the cache.
BatchQueries == { q \in BesideQueries : q.Prefix = Slash /\ q.Limit = 1 }

DoBatchQuery == \E g \in OneCaller, q \in BatchQueries : Query(g, q)

\* Put and Delete, beside the batches, of the key that no batch holds.
DoPutOther ==
    \E g \in OneCaller, k \in BesideKeys \ BatchKeys : Put(g, k, <<"x">>)

DoDeleteOther == \E g \in OneCaller, k \in BesideKeys \ BatchKeys : Delete(g, k)

DoBatch == \E g \in OneCaller : Batch(g)

DoBatchPut == \E g \in Threads, k \in BatchKeys, val \in Vals : BatchPut(g, k, val)

DoBatchDelete == \E g \in Threads, k \in BatchKeys : BatchDelete(g, k)

DoCommit == \E g \in Threads : Commit(g)

\* A bulk call that succeeds has applied all it was given; an upload that
\* fails has read from the buffer at least the records it has applied.
DoCommitUploaded ==
    \E g \in Threads : 
        /\ batch[g] # <<>>
        /\ \E upOk \in BOOLEAN, upN \in 0..Len(batch[g][1].putData),
              sent \in 0..Len(batch[g][1].putData) :
              /\ upOk => (upN = Len(batch[g][1].putData) /\ sent = upN)
              /\ upN <= sent
              /\ CommitUploaded(g, upOk, upN, sent)

DoCommitDeleted ==
    \E g \in Threads :
        /\ batch[g] # <<>>
        /\ \E delOk \in BOOLEAN, delN \in 0..Len(batch[g][1].delKeys) :
              /\ delOk => delN = Len(batch[g][1].delKeys)
              /\ CommitDeleted(g, delOk, delN)

DoDiscard == \E g \in Threads : Discard(g)

\* A container whose objects are without content.
InitLive ==
    /\ Init
    /\ \A n \in Names : objs[n] \in {NoObj, <<EmptyStr>>}

\* The query engine, with Put and Delete of one key and Close between the
\* steps of the results.
Next ==
    \/ DoPut \/ DoPutLanded \/ DoDelete \/ DoDeleteLanded
    \/ DoQuery \/ DoAdvance \/ DoClose

Spec == InitLive /\ [][Next]_vars

\* The queries over a container that does not change, with a consumer that
\* keeps advancing the results it holds, closed or not: it queries again
\* once they have ended.
DoLiveQuery ==
    \E g \in OneCaller, q \in Queries :
        /\ q.KeysOnly
        /\ iter[g] # <<>> => iter[g][1].ended
        /\ Query(g, q)

NextLive == DoLiveQuery \/ DoAdvance \/ DoClose

SpecLive == InitLive /\ [][NextLive]_vars /\ WF_vars(DoAdvance)

DoAdvanceAgain == \E g \in OneCaller, ok \in BOOLEAN : AdvanceAgain(g, ok, ok)

\* The queries that fetch values, from the first key of a prefix.
ValueQueries == { q \in Queries : ~q.KeysOnly /\ q.Offset = 0 }

DoValueQuery == \E g \in OneCaller, q \in ValueQueries : Query(g, q)

\* Queries with values whose consumer may go on advancing after the end.
NextAgain == DoValueQuery \/ DoAdvance \/ DoAdvanceAgain \/ DoClose

SpecAgain == InitLive /\ [][NextAgain]_vars

\* The cache's critical sections, one read or write of a field at a time, with
\* goroutines that run Query, the iterator's cache write and Invalidate side by
\* side.  last.val is the triple the last finished write of an iterator wrote.
InitLock ==
    /\ objs = [n \in Names |-> NoObj]
    /\ cache = EmptyCache
    /\ iter = [g \in Threads |-> <<>>]
    /\ batch = [g \in Threads |-> <<>>]
    /\ last = LastVal("g1", "New", EmptyStr, "nil", <<>>, EmptyCache)
    /\ lock = FreeLock
    /\ threads = [t \in Threads |-> IdleThread]

\* The queries whose read of the cache is followed: any prefix and offset.
LockQueries == { q \in Queries : q.Limit = 0 /\ q.KeysOnly }

\* The triples an iterator writes: a name under the prefix, at an index of
\* one or two.
WriteTriples ==
    { w \in { CacheWrite(TrimPrefix(p, Slash), qoffset, 1, keyToName(k)) :
                  p \in Prefixes, qoffset \in {0, 1}, k \in BatchKeys } :
        HasPrefix(w.name, w.prefix) }

\* Query up to the read of the cache: opts.Prefix and offset are set.
QueryCalled(t, q) ==
    /\ threads[t].pc = "idle"
    /\ threads' = [threads EXCEPT ![t] = [IdleThread EXCEPT
                       !.pc = "RLock",
                       !.prefix = TrimPrefix(q.Prefix, Slash),
                       !.offset = q.Offset]]
    /\ UNCHANGED <<objs, cache, iter, batch, last, lock>>

\* s.cache.lock.RLock()
RLock(t) ==
    /\ threads[t].pc = "RLock"
    /\ CanRLock(lock)
    /\ lock' = [lock EXCEPT !.readers = @ \cup {t}]
    /\ threads' = [threads EXCEPT ![t].pc = "ReadPrefix"]
    /\ UNCHANGED <<objs, cache, iter, batch, last>>

\* s.cache.prefix == opts.Prefix &&
ReadPrefix(t) ==
    /\ threads[t].pc = "ReadPrefix"
    /\ threads' = [threads EXCEPT
           ![t].seen = Append(@, cache.prefix),
           ![t].pc = IF cache.prefix = threads[t].prefix THEN "ReadName" ELSE "RUnlock"]
    /\ UNCHANGED <<objs, cache, iter, batch, last, lock>>

\* s.cache.name != "" &&
ReadName(t) ==
    /\ threads[t].pc = "ReadName"
    /\ threads' = [threads EXCEPT
           ![t].seen = Append(@, cache.name),
           ![t].pc = IF cache.name # EmptyStr THEN "ReadIndex" ELSE "RUnlock"]
    /\ UNCHANGED <<objs, cache, iter, batch, last, lock>>

\* s.cache.index <= offset
ReadIndex(t) ==
    /\ threads[t].pc = "ReadIndex"
    /\ threads' = [threads EXCEPT
           ![t].seen = Append(@, cache.index),
           ![t].pc = IF cache.index <= threads[t].offset THEN "TakeMarker" ELSE "RUnlock"]
    /\ UNCHANGED <<objs, cache, iter, batch, last, lock>>

\* opts.Marker = s.cache.name
TakeMarker(t) ==
    /\ threads[t].pc = "TakeMarker"
    /\ threads' = [threads EXCEPT ![t].marker = cache.name,
                                  ![t].hit = TRUE,
                                  ![t].pc = "TakeOffset"]
    /\ UNCHANGED <<objs, cache, iter, batch, last, lock>>

\* offset = s.cache.index - offset
TakeOffset(t) ==
    /\ threads[t].pc = "TakeOffset"
    /\ threads' = [threads EXCEPT ![t].used = cache.index,
                                  ![t].offset = HitOffset(cache.index, @),
                                  ![t].pc = "RUnlock"]
    /\ UNCHANGED <<objs, cache, iter, batch, last, lock>>

\* s.cache.lock.RUnlock()
RUnlock(t) ==
    /\ threads[t].pc = "RUnlock"
    /\ lock' = [lock EXCEPT !.readers = @ \ {t}]
    /\ threads' = [threads EXCEPT ![t] = IdleThread]
    /\ UNCHANGED <<objs, cache, iter, batch, last>>

\* An iterator's Next has come to its cache write with the triple w.
WriteDue(t, w) ==
    /\ threads[t].pc = "idle"
    /\ threads' = [threads EXCEPT ![t] = [IdleThread EXCEPT
                       !.pc = "Lock", !.kind = "write", !.w = w]]
    /\ UNCHANGED <<objs, cache, iter, batch, last, lock>>

\* Put, Delete or Commit calls s.cache.Invalidate().
InvalidateCalled(t) ==
    /\ threads[t].pc = "idle"
    /\ threads' = [threads EXCEPT ![t] = [IdleThread EXCEPT
                       !.pc = "Lock", !.kind = "invalidate"]]
    /\ UNCHANGED <<objs, cache, iter, batch, last, lock>>

\* s.cache.lock.Lock(), c.lock.Lock()
Lock(t) ==
    /\ threads[t].pc = "Lock"
    /\ CanLock(lock)
    /\ lock' = [lock EXCEPT !.writer = {t}]
    /\ threads' = [threads EXCEPT
           ![t].pc = IF threads[t].kind = "write" THEN "WritePrefix" ELSE "ClearName"]
    /\ UNCHANGED <<objs, cache, iter, batch, last>>

\* s.cache.prefix = opts.Prefix
WritePrefix(t) ==
    /\ threads[t].pc = "WritePrefix"
    /\ cache' = [cache EXCEPT !.prefix = threads[t].w.prefix]
    /\ threads' = [threads EXCEPT ![t].pc = "WriteIndex"]
    /\ UNCHANGED <<objs, iter, batch, last, lock>>

\* s.cache.index = q.Offset + count
WriteIndex(t) ==
    /\ threads[t].pc = "WriteIndex"
    /\ cache' = [cache EXCEPT !.index = threads[t].w.index]
    /\ threads' = [threads EXCEPT ![t].pc = "WriteName"]
    /\ UNCHANGED <<objs, iter, batch, last, lock>>

\* s.cache.name = name
WriteName(t) ==
    /\ threads[t].pc = "WriteName"
    /\ cache' = [cache EXCEPT !.name = threads[t].w.name]
    /\ threads' = [threads EXCEPT ![t].pc = "Unlock"]
    /\ UNCHANGED <<objs, iter, batch, last, lock>>

\* c.name = ""
ClearName(t) ==
    /\ threads[t].pc = "ClearName"
    /\ cache' = Invalidate(cache)
    /\ threads' = [threads EXCEPT ![t].pc = "Unlock"]
    /\ UNCHANGED <<objs, iter, batch, last, lock>>

\* s.cache.lock.Unlock(), c.lock.Unlock()
Unlock(t) ==
    /\ threads[t].pc = "Unlock"
    /\ lock' = [lock EXCEPT !.writer = {}]
    /\ threads' = [threads EXCEPT ![t] = IdleThread]
    /\ last' = IF threads[t].kind = "write"
               THEN LastVal(t, "CacheWrite", EmptyStr, "nil", <<>>, threads[t].w)
               ELSE LastVal(t, "Invalidate", EmptyStr, "nil", <<>>, last.val)
    /\ UNCHANGED <<objs, cache, iter, batch>>

NextLock ==
    \E t \in Threads :
        \/ \E q \in LockQueries : QueryCalled(t, q)
        \/ RLock(t) \/ ReadPrefix(t) \/ ReadName(t) \/ ReadIndex(t)
        \/ TakeMarker(t) \/ TakeOffset(t) \/ RUnlock(t)
        \/ \E w \in WriteTriples : WriteDue(t, w)
        \/ InvalidateCalled(t)
        \/ Lock(t) \/ WritePrefix(t) \/ WriteIndex(t) \/ WriteName(t)
        \/ ClearName(t) \/ Unlock(t)

SpecLock == InitLock /\ [][NextLock]_vars

\* A container that holds objects under the keys in use beside batches only.
InitBatch ==
    /\ Init
    /\ \A k \in Keys \ BesideKeys : objs[keyToName(k)] = NoObj

\* The per-key operations, beside the queries that fill the cache and those
\* that are refused.
NextKV ==
    \/ DoPutBeside \/ DoPutLanded \/ DoDeleteBeside \/ DoDeleteLanded
    \/ DoGet \/ DoHas \/ DoGetSize
    \/ DoBesideQuery \/ DoQueryRejected \/ DoAdvance

SpecKV == InitBatch /\ [][NextKV]_vars

\* The batches of one caller, between its Puts, its Deletes and the query
\* that fills the cache.
NextBatch ==
    \/ DoPutOther \/ DoPutLanded \/ DoDeleteOther \/ DoDeleteLanded
    \/ DoBatchQuery \/ DoAdvance
    \/ DoBatch \/ DoBatchPut \/ DoBatchDelete
    \/ DoCommit \/ DoCommitUploaded \/ DoCommitDeleted \/ DoDiscard

SpecBatch == InitBatch /\ [][NextBatch]_vars

\* Two goroutines.  The second is the one that mutates.
Mutator == {"g2"}

\* A container of objects without content under the keys in use beside
\* batches.
InitDuring == InitLive /\ InitBatch

\* Put and Delete by one goroutine while the other may be inside a query or
\* hold results: the calls to the store go through and the values put are
\* of one byte.
DoPutDuring == \E g \in Mutator, k \in BatchKeys : Put(g, k, <<"x">>)

DoPutLandedDuring == \E g \in Threads : PutLanded(g, TRUE)

DoDeleteDuring == \E g \in Mutator, k \in BatchKeys : Delete(g, k)

DoDeleteLandedDuring == \E g \in Threads : DeleteLanded(g, TRUE)

\* The queries interleaved with mutations, from offset 0, so that none of
\* them takes its start from the cache: keys only, the first key or all keys
\* of a prefix; and with its value, the first key under /a/.
InterleavedQueries ==
    BesideQueries \cup { [Prefix |-> <<"/", "a", "/">>, Offset |-> 0, Limit |-> 1,
                           KeysOnly |-> FALSE] }

\* The query of the goroutine that mutates is for all keys under /a/.
DoInterleavedQuery ==
    \E g \in Threads, q \in InterleavedQueries :
        /\ g \in Mutator => (q.Prefix # Slash /\ q.Limit = 0)
        /\ Query(g, q)

\* Two goroutines, each with results of its own, and the Puts and Deletes of
\* one of them: every step of one between any two steps of the other.
NextInterleaved ==
    \/ DoInterleavedQuery \/ DoAdvance
    \/ DoPutDuring \/ DoPutLandedDuring \/ DoDeleteDuring \/ DoDeleteLandedDuring

SpecInterleaved == InitDuring /\ [][NextInterleaved]_vars

\* The queries of the goroutine that does not mutate.
DoQueryDuring ==
    \E g \in Threads \ Mutator, q \in InterleavedQueries : Query(g, q)

\* Put and Delete of the key that no batch holds.
DoPutOtherDuring ==
    \E g \in Mutator, k \in BesideKeys \ BatchKeys : Put(g, k, EmptyStr)

DoDeleteOtherDuring ==
    \E g \in Mutator, k \in BesideKeys \ BatchKeys : Delete(g, k)

\* The batch of the goroutine that mutates: it may put /b and delete /a/b.
DoBatchDuring == \E g \in Mutator : Batch(g)

DoBatchPutDuring == \E g \in Mutator : BatchPut(g, <<"/", "b">>, EmptyStr)

DoBatchDeleteDuring == \E g \in Mutator : BatchDelete(g, <<"/", "a", "/", "b">>)

\* Every mutating handler of one goroutine, step by step, between the steps
\* of the queries of the other.
NextMutating ==
    \/ DoQueryDuring \/ DoAdvance
    \/ DoPutOtherDuring \/ DoPutLanded \/ DoDeleteOtherDuring \/ DoDeleteLanded
    \/ DoBatchDuring \/ DoBatchPutDuring \/ DoBatchDeleteDuring
    \/ DoCommit \/ DoCommitUploaded \/ DoCommitDeleted \/ DoDiscard

SpecMutating == InitDuring /\ [][NextMutating]_vars
----------------------------------------------------------------------------
(* The claims.                                                              *)

\* The set of the elements of a sequence.
Range(seq) == { seq[i] : i \in DOMAIN seq }

\* The keys-only query for prefix p with the given offset and limit.
KeysQuery(p, offset, limit) ==
    [Prefix |-> p, Offset |-> offset, Limit |-> limit, KeysOnly |-> TRUE]

\* The keys a query yields when opened on cache c and consumed to its end.
PageKeys(q, c, o) == Range(OutKeys(RunQuery(q, c, o).it))

\* No goroutine is inside a handler.
AtRest == \A g \in Threads : InNoHandler(g)

\* Goroutine g holds results that have not ended.
Open(g) == iter[g] # <<>> /\ ~iter[g][1].ended

\* Query has just returned results to goroutine last.g; the cache is as Query
\* read it.
JustOpened == last.op = "Query" /\ last.ret = "nil"

\* The results of the goroutine that took the last step.
Its == iter[last.g][1]

\* Next has just returned to goroutine last.g: it was called on the iterator
\* last.it0 and the cache last.c0, and Its is the iterator as it left it.
NextReturned == last.op = "Next"

\* C1 (as claimed): pagination equivalence.  With no mutation in between, the
\* keys of a fully consumed Query(p, 0, n) followed by those of a fully
\* consumed Query(p, n, m) are exactly the keys of Query(p, 0, n+m): none is
\* skipped and none is in both pages.
C1_PaginationEquivalence ==
    AtRest =>
        \A p \in Prefixes, n \in 1..(PageLimit + 1), m \in 1..MaxLimit :
            LET r1 == RunQuery(KeysQuery(p, 0, n), cache, objs)
                r2 == RunQuery(KeysQuery(p, n, m), r1.cache, objs)
                k1 == Range(OutKeys(r1.it))
                k2 == Range(OutKeys(r2.it))
            IN  /\ k1 \cup k2 = PageKeys(KeysQuery(p, 0, n + m), r2.cache, objs)
                /\ k1 \cap k2 = {}

\* C2 (as claimed): a query opened on a cache hit resumes after the cached
\* name with a residual skip of requestedOffset - cachedIndex, and so, no
\* Put, Delete or Commit having run meanwhile and the results not having been
\* closed on the way, yields the entries the same query yields on an empty
\* cache.
C2_HitSkipsTheDifference ==
    /\ (JustOpened /\ Its.hit) =>
            /\ Its.opts.Marker = cache.name
            /\ Its.offset = Its.q.Offset - cache.index
    /\ \A g \in Threads :
          ( /\ iter[g] # <<>> /\ iter[g][1].hit /\ iter[g][1].ended
            /\ ~iter[g][1].failed /\ ~iter[g][1].disturbed
            /\ ~iter[g][1].closed ) =>
              iter[g][1].out = RunQuery(iter[g][1].q, EmptyCache, objs).it.out

\* C3 (as claimed): whenever the cache is not empty, the cached name is the
\* key at position index-1 of the listing of the cached prefix, so that the
\* cached index is the position right after it.
C3_CachedIndexIsPositionAfterName ==
    cache.name # EmptyStr =>
        /\ cache.index \in 1..Len(Listing(objs, cache.prefix))
        /\ Listing(objs, cache.prefix)[cache.index] = cache.name

\* The object name of the last entry an iterator has yielded.
LastName(it) == keyToName(it.out[Len(it.out)].Key)

\* The container of the repository's query test: the keys under /a, each
\* holding a one-byte value.
ExampleObjs ==
    [n \in { <<"a">>, <<"a", "/", "b">>, <<"a", "/", "b", "/", "c">>,
             <<"a", "/", "b", "/", "d">>, <<"a", "/", "c">>, <<"a", "/", "d">> }
        |-> <<<<"x">>>>]

\* Query(/a/, 2, 2) on the example leaves the cache (a/, a/c, 4); Query(/a/, 4, 2)
\* then yields exactly /a/d and leaves (a/, a/d, 5).
ExampleHolds ==
    LET p  == <<"/", "a", "/">>
        r1 == RunQuery(KeysQuery(p, 2, 2), EmptyCache, ExampleObjs)
        r2 == RunQuery(KeysQuery(p, 4, 2), r1.cache, ExampleObjs)
    IN  /\ OutKeys(r1.it) = << <<"/", "a", "/", "b", "/", "d">>, <<"/", "a", "/", "c">> >>
        /\ r1.cache = [prefix |-> <<"a", "/">>, name |-> <<"a", "/", "c">>, index |-> 4]
        /\ NewIterator(KeysQuery(p, 4, 2), r1.cache).opts.Marker = <<"a", "/", "c">>
        /\ OutKeys(r2.it) = << <<"/", "a", "/", "d">> >>
        /\ r2.cache = [prefix |-> <<"a", "/">>, name |-> <<"a", "/", "d">>, index |-> 5]

\* C4: when a query with limit l1 >= 1 and offset o1 has yielded its l1-th
\* entry, the cache holds its prefix without the leading "/", the object name
\* of that entry and the index o1 + l1; and a query then opened for the
\* cached prefix at the cached index takes the cached name as the marker of
\* its listing, with nothing left to skip.  The example of the test holds.
C4_LimitReachedLeavesCursor ==
    /\ ( /\ NextReturned /\ last.ret = "entry"
         /\ Its.q.Limit >= 1 /\ Len(Its.out) = Its.q.Limit ) =>
            cache = [ prefix |-> TrimPrefix(Its.q.Prefix, Slash),
                      name   |-> LastName(Its),
                      index  |-> Its.q.Offset + Its.q.Limit ]
    /\ ( /\ JustOpened
         /\ cache.name # EmptyStr
         /\ cache.prefix = TrimPrefix(Its.q.Prefix, Slash)
         /\ cache.index = Its.q.Offset ) =>
            /\ Its.hit
            /\ Its.opts.Marker = cache.name
            /\ Its.offset = 0
    /\ last.op = "New" => ExampleHolds

\* A query opened at the index an earlier query left in the cache has hit the
\* cache and has just yielded as many entries as its limit.
C4_Witness ==
    /\ NextReturned /\ last.ret = "entry"
    /\ Its.hit
    /\ Its.q.Offset >= 1
    /\ Its.q.Limit >= 1
    /\ Len(Its.out) = Its.q.Limit

\* C5: a query with offset 0 and limit 0, consumed to its end without error
\* and without a Close on the way while no Put, Delete or Commit ran, has
\* yielded exactly the keys present that start with its prefix, each once,
\* whatever the number of pages.
C5_PrefixScanComplete ==
    \A g \in Threads :
        ( /\ iter[g] # <<>> /\ iter[g][1].ended /\ ~iter[g][1].failed
          /\ ~iter[g][1].disturbed /\ ~iter[g][1].closed
          /\ iter[g][1].q.Offset = 0 /\ iter[g][1].q.Limit = 0 ) =>
            /\ Range(OutKeys(iter[g][1])) =
                   { NameToKey(n) : n \in { m \in Present(objs) :
                                              HasPrefix(NameToKey(m), iter[g][1].q.Prefix) } }
            /\ Len(iter[g][1].out) = Cardinality(Range(OutKeys(iter[g][1])))

\* A full scan has ended on a listing that fills its pages exactly.
C5_Witness ==
    \E g \in Threads :
        /\ iter[g] # <<>> /\ iter[g][1].ended /\ ~iter[g][1].failed
        /\ ~iter[g][1].disturbed /\ ~iter[g][1].closed
        /\ iter[g][1].q.Offset = 0 /\ iter[g][1].q.Limit = 0
        /\ Len(iter[g][1].out) = PageLimit

\* The entries at positions [q.Offset, q.Offset + q.Limit) of the listing of
\* q's prefix in container o (to the end when q.Limit is 0).
ExpectedEntries(o, q) ==
    LET L    == Listing(o, TrimPrefix(q.Prefix, Slash))
        to   == IF q.Limit = 0 THEN Len(L) ELSE Min(Len(L), q.Offset + q.Limit)
        n    == IF to > q.Offset THEN to - q.Offset ELSE 0
    IN  [i \in 1..n |-> [Key   |-> NameToKey(L[q.Offset + i]),
                         Value |-> IF q.KeysOnly THEN NoVal ELSE o[L[q.Offset + i]]]]

\* What C6 says of query q opened on cache c and container o.
FromTheBeginning(q, c, o) ==
    /\ NewIterator(q, c).opts.Marker = EmptyStr
    /\ NewIterator(q, c).offset = q.Offset
    /\ RunQuery(q, c, o).it.out = ExpectedEntries(o, q)

\* C6 (as claimed): when Put, Delete or Commit has returned, the cache is
\* empty; a query opened next for the prefix the cache holds lists from the
\* beginning with its requested offset as residual skip, and yields the
\* entries at [offset, offset+limit) of the keys as they then are.
C6_MutationInvalidates ==
    last.op \in {"Put", "Delete", "Commit"} =>
        /\ cache.name = EmptyStr
        /\ \A q \in Queries :
              q.Prefix = NameToKey(cache.prefix) => FromTheBeginning(q, cache, objs)

\* The number of calls of fn among calls.
CountCalls(calls, fn) == Cardinality({ i \in DOMAIN calls : calls[i].fn = fn })

\* The bulk upload was called and failed.
UploadFailed(calls) == \E i \in DOMAIN calls : calls[i].fn = "BulkUpload" /\ ~calls[i].ok

\* Commit has just returned to goroutine last.g.
AfterCommit == last.op = "Commit"

\* The batch of the goroutine that took the last step.
ItsBatch == batch[last.g][1]

\* The first Commit of a batch has just returned: a batch is committed once.
AfterFirstCommit == AfterCommit /\ ~ItsBatch.again

\* The value of the last Put of key k the batch b received.
LastPutVal(b, k) ==
    b.puts[CHOOSE i \in DOMAIN b.puts :
              /\ b.puts[i].Key = k
              /\ \A j \in DOMAIN b.puts : b.puts[j].Key = k => j <= i].Val

\* Key k is absent: Has is false and no full scan yields it.
Absent(k) ==
    /\ ~Has(objs, k, TRUE).has
    /\ \A p \in Prefixes : k \notin PageKeys(KeysQuery(p, 0, 0), cache, objs)

\* C7 (as claimed): after a successful Commit every key put in the batch is
\* returned by Get with the value put (the last one put for the key), and
\* every key deleted in the batch is absent.
C7_PutsAndDeletesAllTakeEffect ==
    (AfterFirstCommit /\ last.ret = "nil") =>
        /\ \A i \in DOMAIN ItsBatch.puts :
              Get(objs, ItsBatch.puts[i].Key, TRUE) =
                  [data |-> <<LastPutVal(ItsBatch, ItsBatch.puts[i].Key)>>, err |-> "nil"]
        /\ \A j \in DOMAIN ItsBatch.dels : Absent(ItsBatch.dels[j])

\* C7 (amended): after a successful Commit every key put in the batch and not
\* deleted in it is returned by Get with the value last put for it, and every
\* key deleted in the batch is absent.
C7_PutsNotDeletedTakeEffect ==
    (AfterFirstCommit /\ last.ret = "nil") =>
        /\ \A i \in DOMAIN ItsBatch.puts :
              ItsBatch.puts[i].Key \notin Range(ItsBatch.dels) =>
                  Get(objs, ItsBatch.puts[i].Key, TRUE) =
                      [data |-> <<LastPutVal(ItsBatch, ItsBatch.puts[i].Key)>>,
                       err |-> "nil"]
        /\ \A j \in DOMAIN ItsBatch.dels : Absent(ItsBatch.dels[j])

\* A batch with a put of one key and a delete of another was committed.
C7_Witness ==
    /\ AfterFirstCommit /\ last.ret = "nil"
    /\ \E i \in DOMAIN ItsBatch.puts, j \in DOMAIN ItsBatch.dels :
          ItsBatch.puts[i].Key # ItsBatch.dels[j]

\* C8 (as claimed): a Commit calls BulkUpload once if the batch received a
\* Put and not at all otherwise, and BulkDelete once if it received a Delete
\* and not at all otherwise; an empty batch makes no call and succeeds.
C8_OneBulkCallPerKind ==
    AfterCommit =>
        /\ CountCalls(last.calls, "BulkUpload") = IF Len(ItsBatch.puts) >= 1 THEN 1 ELSE 0
        /\ CountCalls(last.calls, "BulkDelete") = IF Len(ItsBatch.dels) >= 1 THEN 1 ELSE 0
        /\ (Len(ItsBatch.puts) = 0 /\ Len(ItsBatch.dels) = 0) =>
              (last.calls = <<>> /\ last.ret = "nil")

\* C8 (amended): as claimed, except that BulkDelete is called once if the
\* batch received a Delete and the bulk upload, if there was one, did not
\* fail, and not at all otherwise.
C8_OneBulkCallUnlessUploadFails ==
    AfterCommit =>
        /\ CountCalls(last.calls, "BulkUpload") = IF Len(ItsBatch.puts) >= 1 THEN 1 ELSE 0
        /\ CountCalls(last.calls, "BulkDelete") =
              IF Len(ItsBatch.dels) >= 1 /\ ~UploadFailed(last.calls) THEN 1 ELSE 0
        /\ (Len(ItsBatch.puts) = 0 /\ Len(ItsBatch.dels) = 0) =>
              (last.calls = <<>> /\ last.ret = "nil")
        /\ Len(last.calls) = CountCalls(last.calls, "BulkUpload")
                             + CountCalls(last.calls, "BulkDelete")

\* A batch with a put and a delete was committed with both bulk calls made.
C8_Witness ==
    /\ AfterCommit /\ last.ret = "nil"
    /\ Len(ItsBatch.puts) >= 1 /\ Len(ItsBatch.dels) >= 1
    /\ Len(last.calls) = 2

\* The handlers of a batch other than Commit, and the caller's letting go of
\* it.
BatchOps == {"Batch", "BatchPut", "BatchDelete", "Discard"}

\* C9: a step in which Batch, Batch.Put or Batch.Delete returns, or in which
\* the batch is dropped, makes no call to the object store and leaves the
\* objects and the cache as they are.
C9_BatchDefersEverything ==
    [][ last'.op \in BatchOps =>
            (objs' = objs /\ cache' = cache /\ last'.calls = <<>>) ]_vars

\* A batch that was never committed has accepted a delete after a put,
\* beside a cache that is not empty.
C9_Witness ==
    /\ last.op = "BatchDelete"
    /\ ~ItsBatch.committed
    /\ Len(ItsBatch.puts) >= 1 /\ Len(ItsBatch.dels) >= 1
    /\ cache.name # EmptyStr

\* The bulk upload of goroutine g's Commit returns in this step; calls are the
\* calls that Commit has made by then.
UploadReturns(g) == threads[g].pc = "BulkUpload" /\ threads'[g].pc # "BulkUpload"

CallsAfter(g) == IF last'.op = "Commit" THEN last'.calls ELSE threads'[g].calls

\* C10: the step in which the bulk upload of a Commit fails is the last of
\* that Commit: it returns the upload's error, having called BulkUpload once
\* and BulkDelete not at all; no object is removed by the step, and an object
\* that changed holds a value the batch put for it.
C10_UploadFailureStopsCommit ==
    [][ \A g \in Threads :
          (UploadReturns(g) /\ UploadFailed(CallsAfter(g))) =>
            /\ last'.op = "Commit"
            /\ last'.ret = "BulkUploadErr"
            /\ CountCalls(last'.calls, "BulkUpload") = 1
            /\ CountCalls(last'.calls, "BulkDelete") = 0
            /\ \A n \in Names :
                  /\ objs[n] # NoObj => objs'[n] # NoObj
                  /\ objs'[n] # objs[n] =>
                        \E i \in DOMAIN batch[g][1].puts :
                            /\ keyToName(batch[g][1].puts[i].Key) = n
                            /\ objs'[n] = <<batch[g][1].puts[i].Val>> ]_vars

\* A commit with pending deletes has returned after its upload failed.
C10_Witness ==
    AfterCommit /\ UploadFailed(last.calls) /\ Len(ItsBatch.dels) >= 1

\* The bulk delete was called and failed.
DeleteFailed(calls) == \E i \in DOMAIN calls : calls[i].fn = "BulkDelete" /\ ~calls[i].ok

\* The bulk upload was called and succeeded.
UploadDone(calls) == \E i \in DOMAIN calls : calls[i].fn = "BulkUpload" /\ calls[i].ok

\* Get returns, for the key of the batch's i-th Put, the value last put for it.
PutReadable(i) ==
    Get(objs, ItsBatch.puts[i].Key, TRUE) =
        [data |-> <<LastPutVal(ItsBatch, ItsBatch.puts[i].Key)>>, err |-> "nil"]

\* C11 (as claimed): after a Commit whose bulk upload succeeded and whose
\* bulk delete failed, Commit has returned the delete's error and every key
\* the batch put is readable with the value put.
C11_DeleteFailureKeepsEveryPut ==
    (AfterFirstCommit /\ UploadDone(last.calls) /\ DeleteFailed(last.calls)) =>
        /\ last.ret = "BulkDeleteErr"
        /\ \A i \in DOMAIN ItsBatch.puts : PutReadable(i)

\* C11 (amended): after a Commit whose bulk upload succeeded and whose bulk
\* delete failed, Commit has returned the delete's error and every key the
\* batch put and did not also delete is readable with the value put.
C11_DeleteFailureKeepsPutsNotDeleted ==
    (AfterFirstCommit /\ UploadDone(last.calls) /\ DeleteFailed(last.calls)) =>
        /\ last.ret = "BulkDeleteErr"
        /\ \A i \in DOMAIN ItsBatch.puts :
              ItsBatch.puts[i].Key \notin Range(ItsBatch.dels) => PutReadable(i)

\* A commit of a put of one key and a delete of another has returned after
\* its upload succeeded and its delete failed.
C11_Witness ==
    /\ AfterFirstCommit /\ UploadDone(last.calls) /\ DeleteFailed(last.calls)
    /\ \E i \in DOMAIN ItsBatch.puts :
          /\ ItsBatch.puts[i].Key \notin Range(ItsBatch.dels)
          /\ ItsBatch.puts[i].Val = <<"x">>

\* C12: a step in which Query refuses a query with filters or orders makes
\* no call to the object store, returns no results (the caller holds what it
\* held), and leaves the cache and the objects as they are.
C12_UnsupportedQueryRejectedAtOnce ==
    [][ (last'.op = "Query" /\ last'.ret = "ErrUnsupported") =>
            /\ last'.calls = <<>>
            /\ iter' = iter
            /\ cache' = cache
            /\ objs' = objs ]_vars

\* A query with filters or orders was refused while the cache held a cursor
\* for its prefix.
C12_Witness ==
    /\ last.op = "Query" /\ last.ret = "ErrUnsupported"
    /\ cache.name # EmptyStr
    /\ cache.prefix = TrimPrefix(last.key, Slash)

\* Query q, opened on cache c and container o and consumed to its end, has
\* yielded nothing, has returned no error and has left the cache as c.
EmptyAndUntouched(q, c, o) ==
    /\ RunQuery(q, c, o).it.out = <<>>
    /\ ~RunQuery(q, c, o).it.failed
    /\ RunQuery(q, c, o).cache = c

\* C13 (as claimed): a query whose prefix matches no key, or whose offset is
\* at or beyond the number of keys matching its prefix, yields no entry and
\* no error and leaves the cache as it was.
C13_NothingToYieldLeavesCache ==
    AtRest =>
        \A q \in Queries :
            q.Offset >= Len(Listing(objs, TrimPrefix(q.Prefix, Slash))) =>
                EmptyAndUntouched(q, cache, objs)

\* The iterator has not yielded as many entries as its limit, and the listing
\* of its prefix in o holds a name after the one it yielded last.
MoreToYield(it, o) ==
    /\ it.q.Limit = 0 \/ Len(it.out) < it.q.Limit
    /\ \E n \in Range(Listing(o, it.opts.Prefix)) : StrLess(LastName(it), n)

\* C14 (as claimed): a Next that yields an entry while the limit is not
\* reached and the listing holds more leaves the cache as it found it, so
\* that a consumer who closes the results there finds the cache as it was
\* before the query.
C14_NoCacheWriteBeforeTheEnd ==
    (NextReturned /\ last.ret = "entry" /\ MoreToYield(Its, objs)) =>
        cache = last.c0

\* C15: when Put(k, v) has returned without error, Get(k) returns v and
\* GetSize(k) returns the length of v, the empty v included; and they keep
\* returning the same through every step that is not the store's write of a
\* Put or Delete of k.
C15_PutGetRoundTrip ==
    [][ /\ (last'.op = "Put" /\ last'.ret = "nil") =>
              /\ Get(objs', last'.key, TRUE) = [data |-> <<last'.val>>, err |-> "nil"]
              /\ GetSize(objs', last'.key, TRUE) = [size |-> Len(last'.val), err |-> "nil"]
        /\ \A k \in Keys :
              \/ last'.op \in {"Put", "Delete"} /\ last'.key = k
              \/ /\ Get(objs', k, TRUE) = Get(objs, k, TRUE)
                 /\ GetSize(objs', k, TRUE) = GetSize(objs, k, TRUE) ]_vars

\* Put has stored the empty value under a key while results were open.
C15_Witness ==
    /\ last.op = "Put" /\ last.ret = "nil" /\ last.val = EmptyStr
    /\ Open(last.g)

\* C16: Has(k) is true once Put(k, _) has returned without error and false
\* once Delete(k) has, and no other step changes what Has(k) returns.
C16_HasFollowsPutAndDelete ==
    [][ /\ (last'.op = "Put" /\ last'.ret = "nil") =>
              Has(objs', last'.key, TRUE) = [has |-> TRUE, err |-> "nil"]
        /\ (last'.op = "Delete" /\ last'.ret = "nil") =>
              Has(objs', last'.key, TRUE) = [has |-> FALSE, err |-> "nil"]
        /\ \A k \in Keys :
              Has(objs', k, TRUE) # Has(objs, k, TRUE) =>
                  /\ last'.op \in {"Put", "Delete"}
                  /\ last'.key = k
                  /\ last'.ret = "nil" ]_vars

\* Delete has removed an object while results were open.
C16_Witness ==
    last.op = "Delete" /\ last.ret = "nil" /\ Open(last.g)

\* C17: for a key with no object, Get returns no bytes and ErrNotFound and
\* Has returns false and no error; a Get or Has the client made of such a key
\* has returned just that unless the call to the store did not go through,
\* and never the store's own not-found error.
C17_AbsentKeyIsNotFound ==
    /\ \A k \in Keys :
          objs[keyToName(k)] = NoObj =>
              /\ Get(objs, k, TRUE) = [data |-> NoVal, err |-> "ErrNotFound"]
              /\ Has(objs, k, TRUE) = [has |-> FALSE, err |-> "nil"]
    /\ (last.op = "Get" /\ objs[keyToName(last.key)] = NoObj) =>
          last.val = NoVal /\ last.ret \in {"ErrNotFound", "err"}
    /\ (last.op = "Has" /\ objs[keyToName(last.key)] = NoObj) =>
          last.val = FALSE /\ last.ret \in {"nil", "err"}

\* Get was called, while results were open, for a key with no object and the
\* store answered.
C17_Witness ==
    /\ last.op = "Get" /\ last.ret = "ErrNotFound" /\ objs[keyToName(last.key)] = NoObj
    /\ Open(last.g)

\* The listing calls among calls.
ListingCalls(calls) == CountCalls(calls, "ObjectNames")

\* C18: results that are open are, with a consumer that keeps advancing
\* them, closed or not, eventually ended; each Next either yields one more entry
\* or ends the results, after at most one listing call per key of the
\* container and one more; and no more entries are yielded than there are
\* objects.
C18_ResultsEnd ==
    /\ [](\A g \in Threads :
             iter[g] # <<>> => Len(iter[g][1].out) <= Cardinality(Present(objs)))
    /\ [](NextReturned =>
             /\ \/ Its.ended
                \/ Len(Its.out) = Len(last.it0.out) + 1
             /\ ListingCalls(last.calls) <= Cardinality(Names) + 1)
    /\ \A g \in Threads : Open(g) ~> ~Open(g)

\* Results have ended without error and without an entry for a query whose
\* offset is beyond the number of keys matching its prefix, with some of the
\* skip left over.
C18_Witness ==
    /\ NextReturned /\ ListingCalls(last.calls) >= 1
    /\ Its.ended /\ ~Its.failed
    /\ Len(Listing(objs, Its.opts.Prefix)) >= 1
    /\ Its.q.Offset > Len(Listing(objs, Its.opts.Prefix))
    /\ Its.offset > 0

\* C19 (as claimed): when results that yielded at least one entry have ended
\* without error and short of their limit (or without a limit), no Put,
\* Delete or Commit having run meanwhile and no Close before the end, the
\* cache holds the prefix without
\* its leading "/", the object name of the last entry yielded and the
\* requested offset plus the number of entries yielded.
C19_ExhaustionLeavesCursor ==
    ( /\ NextReturned /\ last.ret = "end" /\ ~Its.disturbed /\ ~Its.closed
      /\ Len(Its.out) >= 1
      /\ Its.q.Limit = 0 \/ Len(Its.out) < Its.q.Limit ) =>
        cache = [ prefix |-> TrimPrefix(Its.q.Prefix, Slash),
                  name   |-> LastName(Its),
                  index  |-> Its.q.Offset + Len(Its.out) ]

\* Every goroutine is out of its handler and holds no results, or results
\* that have ended.
AllFinished ==
    \A g \in Threads : InNoHandler(g) /\ (iter[g] = <<>> \/ iter[g][1].ended)

\* C20 (as claimed): with Put and Delete interleaved with the steps of
\* queries, once the mutations have returned and the queries have ended
\* the cache is empty or holds a name and the index of the
\* position right after that name in the listing of the cached prefix, as the
\* keys then are.
C20_NoStaleCursorAfterInterleaving ==
    (AllFinished /\ cache.name # EmptyStr) =>
        /\ cache.index \in 1..Len(Listing(objs, cache.prefix))
        /\ Listing(objs, cache.prefix)[cache.index] = cache.name

\* The cache cannot serve query q: it is for another prefix, or empty, or
\* beyond the offset q asks for.
CannotServe(c, q) ==
    \/ c.prefix # TrimPrefix(q.Prefix, Slash)
    \/ c.name = EmptyStr
    \/ c.index > q.Offset

\* The calls the first Next of the results just opened makes.
FirstCalls == IterNext(Its, cache, objs, TRUE, TRUE).calls

\* C21: results opened on a cache that is for another prefix, or empty, or
\* beyond the requested offset have an empty marker and the requested offset
\* as residual skip, and their first listing call carries the empty marker;
\* results that took a marker from the cache are for the cached prefix.
C21_MissStartsFromTheBeginning ==
    /\ (JustOpened /\ CannotServe(cache, Its.q)) =>
          /\ Its.opts.Marker = EmptyStr
          /\ Its.offset = Its.q.Offset
          /\ FirstCalls # <<>> =>
                (FirstCalls[1].fn = "ObjectNames" /\ FirstCalls[1].name = EmptyStr)
    /\ (JustOpened /\ Its.opts.Marker # EmptyStr) =>
          cache.prefix = TrimPrefix(Its.q.Prefix, Slash)

\* Results were opened for one prefix while the cache held a cursor for the
\* other, at an index the requested offset had reached.
C21_Witness ==
    /\ JustOpened
    /\ cache.name # EmptyStr
    /\ cache.prefix # TrimPrefix(Its.q.Prefix, Slash)
    /\ cache.index <= Its.q.Offset

\* The positions of the get-bytes calls among calls.
GetCalls(calls) == { i \in DOMAIN calls : calls[i].fn = "ObjectGetBytes" }

\* The name the next Next of iterator it takes off its buffer to yield it.
NextName(it, c, o) == RunNext(NextEnter(it, c), o, TRUE, TRUE).name

\* C22: a Next of a keys-only query makes no get-bytes call; a Next of any
\* other query makes at most one, as its last call, for the name of the entry
\* it yields (or would have yielded, had the get not failed), and yields no
\* entry without one.
C22_GetsMatchEmissions ==
    NextReturned =>
        /\ last.it0.q.KeysOnly => GetCalls(last.calls) = {}
        /\ Cardinality(GetCalls(last.calls)) <= 1
        /\ \A i \in GetCalls(last.calls) :
              /\ i = Len(last.calls)
              /\ last.calls[i].name = NextName(last.it0, last.c0, objs)
              /\ last.calls[i].ok =>
                    /\ last.ret = "entry"
                    /\ Len(Its.out) = Len(last.it0.out) + 1
                    /\ last.calls[i].name = LastName(Its)
              /\ ~last.calls[i].ok => last.ret = "err"
        /\ (last.ret = "entry" /\ ~last.it0.q.KeysOnly) =>
              GetCalls(last.calls) # {}

\* A query with values has yielded an entry after names were discarded for
\* its offset.
C22_Witness ==
    /\ NextReturned /\ last.ret = "entry"
    /\ ~Its.q.KeysOnly /\ ~Its.hit
    /\ Its.q.Offset >= 1
    /\ GetCalls(last.calls) # {}

\* A value fetch of the iterator has failed: count went up for a name that
\* was not yielded.
FetchFailed(it) == it.count > Len(it.out)

\* A get-bytes call among calls did not go through.
GetFailedIn(calls) == \E i \in GetCalls(calls) : ~calls[i].ok

\* The Next in which a value fetch fails yields the error, closes the
\* results and leaves the entries yielded before as they are.
C23_FailingStepYieldsError ==
    (NextReturned /\ GetFailedIn(last.calls)) =>
        /\ last.ret = "err"
        /\ Its.ended /\ Its.failed
        /\ Its.out = last.it0.out

\* C23 (as claimed): the Next in which a value fetch fails yields the error
\* and no entry, and no Next after a failed value fetch yields an entry; the
\* entries yielded before the failure stay as they were.
C23_FetchFailureIsTerminal ==
    NextReturned =>
        /\ GetFailedIn(last.calls) =>
              (last.ret = "err" /\ Its.out = last.it0.out)
        /\ FetchFailed(last.it0) =>
              (last.ret # "entry" /\ Its.out = last.it0.out)

\* The positions in calls of the listing calls that returned fewer names
\* than they asked for, the container being o and the prefix listed prefix.
ShortCalls(calls, o, prefix) ==
    { i \in DOMAIN calls :
        /\ calls[i].fn = "ObjectNames" /\ calls[i].ok
        /\ Len(ObjectNames(o, [Prefix |-> prefix, Marker |-> calls[i].name,
                               Limit |-> calls[i].limit])) < calls[i].limit }

\* C24: a listing call that returns fewer names than it asked for is the last
\* listing call of its query: none follows it in the same Next, and once one
\* was made (doneFetching is set, and by nothing else) a Next makes no listing
\* call at all: it yields the name at the head of the buffer or, the buffer
\* being empty, ends the results.
C24_NoListingAfterShortPage ==
    NextReturned =>
        /\ \A i \in ShortCalls(last.calls, objs, last.it0.opts.Prefix) :
              \A j \in DOMAIN last.calls :
                  last.calls[j].fn = "ObjectNames" => j <= i
        /\ Its.doneFetching <=>
              \/ last.it0.doneFetching
              \/ ShortCalls(last.calls, objs, last.it0.opts.Prefix) # {}
        /\ last.it0.doneFetching =>
              /\ ListingCalls(last.calls) = 0
              /\ \/ /\ last.ret = "entry"
                    /\ last.it0.names # <<>>
                    /\ LastName(Its) = Head(last.it0.names)
                    /\ Its.names = Tail(last.it0.names)
                 \/ /\ last.ret = "err"
                    /\ last.it0.names # <<>>
                    /\ GetFailedIn(last.calls)
                 \/ /\ last.ret = "end"
                    /\ \/ last.it0.names = <<>>
                       \/ last.it0.count = last.it0.q.Limit

\* The results have ended after names were yielded from the buffer a short
\* page had filled, without another listing call.
C24_Witness ==
    /\ NextReturned /\ last.ret = "end" /\ last.calls = <<>>
    /\ Its.doneFetching /\ Its.ended
    /\ Len(Its.out) >= 2

RECURSIVE SkipBefore(_, _, _, _, _)
\* The residual skip when call i of the listing calls of one Next is made:
\* the skip the Next started with, less the pages the calls before returned
\* (the loop lists again only after a page that was skipped whole).
SkipBefore(calls, i, o, prefix, offset) ==
    IF i = 1 THEN offset
    ELSE IF SkipBefore(calls, i - 1, o, prefix, offset) > 0
    THEN SkipBefore(calls, i - 1, o, prefix, offset)
         - Len(ObjectNames(o, [Prefix |-> prefix, Marker |-> calls[i - 1].name,
                               Limit |-> calls[i - 1].limit]))
    ELSE SkipBefore(calls, i - 1, o, prefix, offset)

\* The remaining quota of an iterator with a limit: limit - emitted so far.
Quota(it) == it.q.Limit - it.count

\* C25 (as claimed): a listing call of a query with a limit, made when the
\* remaining quota is smaller than the page size, asks for a positive number
\* of names, for no more than the names still to skip and the remaining quota
\* together, and for exactly the remaining quota when there is nothing left
\* to skip.
C25_TailRequestsTheQuota ==
    (NextReturned /\ last.it0.q.Limit # 0 /\ Quota(last.it0) < PageLimit) =>
        \A i \in DOMAIN last.calls :
            last.calls[i].fn = "ObjectNames" =>
                /\ last.calls[i].limit > 0
                /\ SkipBefore(last.calls, i, objs, last.it0.opts.Prefix,
                              last.it0.offset) > 0 =>
                      last.calls[i].limit <=
                          SkipBefore(last.calls, i, objs, last.it0.opts.Prefix,
                                     last.it0.offset) + Quota(last.it0)
                /\ SkipBefore(last.calls, i, objs, last.it0.opts.Prefix,
                              last.it0.offset) <= 0 =>
                      last.calls[i].limit = Quota(last.it0)

\* The program points inside Query's read of the cache and inside a write.
ReadSection == {"ReadPrefix", "ReadName", "ReadIndex", "TakeMarker", "TakeOffset", "RUnlock"}

WriteSection == {"WritePrefix", "WriteIndex", "WriteName", "ClearName", "Unlock"}

\* The fields of cache c in the order Query reads them.
FieldsRead(c) == <<c.prefix, c.name, c.index>>

\* C26: a goroutine reads the cache only while it holds the lock shared and no
\* goroutine holds it exclusively, and writes it only while it alone holds the
\* lock; so the fields a query has read when it decides are the cache's, which
\* are those of the last finished write of an iterator with at most the name
\* cleared by Invalidate, and a query that decides for a hit has compared, and
\* taken its marker and index from, the triple of that one write.
C26_LockDiscipline ==
    \A t \in Threads :
        /\ threads[t].pc \in ReadSection =>
              (t \in lock.readers /\ lock.writer = {})
        /\ threads[t].pc \in WriteSection =>
              (lock.writer = {t} /\ lock.readers = {})
        /\ threads[t].pc = "RUnlock" =>
              /\ threads[t].seen =
                    SubSeq(FieldsRead(cache), 1, Len(threads[t].seen))
              /\ cache.prefix = last.val.prefix
              /\ cache.index = last.val.index
              /\ cache.name \in {last.val.name, EmptyStr}
        /\ (threads[t].pc = "RUnlock" /\ threads[t].hit) =>
              /\ threads[t].seen = FieldsRead(last.val)
              /\ threads[t].marker = last.val.name
              /\ threads[t].used = last.val.index
              /\ last.val \in WriteTriples

\* A query has decided for a hit while another goroutine waits for the lock
\* to write, after a write and an invalidation before it.
C26_Witness ==
    \E t \in Threads, u \in Threads :
        /\ threads[t].pc = "RUnlock" /\ threads[t].hit
        /\ threads[u].pc = "Lock" /\ threads[u].kind = "write"
        /\ threads[u].w # last.val
        /\ last.op = "CacheWrite"

\* The keys batch b received both a Put and a Delete for.
PutAndDeleted(b) == { b.puts[i].Key : i \in DOMAIN b.puts } \cap Range(b.dels)

\* C27: after a successful Commit of a batch that received both a Put and a
\* Delete of a key, whichever came first, the bulk upload was called before
\* the bulk delete and the key is absent: Get answers not-found, Has answers
\* false and no query yields the key.
C27_DeleteWinsOverPut ==
    (AfterFirstCommit /\ last.ret = "nil" /\ PutAndDeleted(ItsBatch) # {}) =>
        /\ last.calls = <<Call("BulkUpload", EmptyStr, Len(ItsBatch.puts), TRUE),
                          Call("BulkDelete", EmptyStr, Len(ItsBatch.dels), TRUE)>>
        /\ \A k \in PutAndDeleted(ItsBatch) :
              /\ objs[keyToName(k)] = NoObj
              /\ Get(objs, k, TRUE).err = "ErrNotFound"
              /\ Absent(k)

\* A batch that received a Put and a Delete of the same key was committed.
C27_Witness ==
    /\ AfterFirstCommit /\ last.ret = "nil"
    /\ Len(ItsBatch.puts) = 1 /\ Len(ItsBatch.dels) = 1
    /\ ItsBatch.puts[1].Key = ItsBatch.dels[1]
    /\ CountCalls(last.calls, "BulkUpload") = 1

====
